---- MODULE Spec2Model ----
(***************************************************************************)
(* Hue agent: the /chat pipeline of the express server (src/cli.ts), the   *)
(* memory functions over the conversations and memories tables             *)
(* (src/supabase.ts), the Ollama client (src/utils/ollama.ts) and the      *)
(* context builder of the persona module (src/README.md).                  *)
(*                                                                         *)
(* Texts are sequences of one-character strings, so that concatenation,    *)
(* trimming and line splitting are computed as the code computes them.     *)
(* A JavaScript value that may be undefined is a record [def, s].          *)
(***************************************************************************)
EXTENDS Integers, Sequences, FiniteSets, TLC

\* ------------------------------------------------------------------ bounds

\* Longest most-recent-first conversation list handed to buildMemoryContext
\* in the context-builder specification.
MaxConvs == 7

\* Longest fact list handed to buildMemoryContext there.
MaxMems == 1

\* ---------------------------------------------------------- program constants

\* recentConversations.slice(-5)
ContextWindow == 5

\* recallRecentConversations(userId, 5)
RecallLimit == 5

\* ------------------------------------------------------------------ values

Undefined == [def |-> FALSE, s |-> <<>>]

Str(s) == [def |-> TRUE, s |-> s]

\* JavaScript truthiness of a string-or-undefined value: !v is ~Truthy(v).
Truthy(v) == v.def /\ v.s # <<>>

Max(a, b) == IF a >= b THEN a ELSE b

Min(a, b) == IF a <= b THEN a ELSE b

Reverse(s) == [i \in 1..Len(s) |-> s[Len(s) + 1 - i]]

\* Array.prototype.slice(-n): the last n elements, all of them when fewer.
SliceLast(s, n) == SubSeq(s, Max(Len(s) - n, 0) + 1, Len(s))

\* Array.prototype.slice(0, n), which is what .limit(n) does to a result set.
Take(s, n) == SubSeq(s, 1, Min(Len(s), n))

\* ---------------------------------------------------------- context builder

\* One rendered line of the context block.  kind names the template, n is the
\* number the template prints (0 when it prints none), a and b are the texts
\* it interpolates.
Line(kind, n, a, b) == [kind |-> kind, n |-> n, a |-> a, b |-> b]

\* "\n\nRecent conversation history:\n"
HistoryHeader == Line("historyHeader", 0, <<>>, <<>>)

\* "\n\nUser preferences and memories:\n"
MemoriesHeader == Line("memoriesHeader", 0, <<>>, <<>>)

\* `${index + 1}. User: ${conv.message}\n` then `   Hue: ${conv.response}\n`
\* for the element at (1-based) position i of the slice.
ConvLines(slice, i) ==
    << Line("user", i, slice[i].message, <<>>),
       Line("hue", 0, slice[i].response, <<>>) >>

RECURSIVE RenderConvs(_, _)
RenderConvs(slice, i) ==
    IF i > Len(slice) THEN <<>>
    ELSE ConvLines(slice, i) \o RenderConvs(slice, i + 1)

\* `- ${memory.key}: ${memory.value}\n`
RECURSIVE RenderMems(_, _)
RenderMems(mems, i) ==
    IF i > Len(mems) THEN <<>>
    ELSE << Line("memory", 0, mems[i].key, mems[i].value) >>
         \o RenderMems(mems, i + 1)

\* The slice of the supplied conversations that is rendered.
ContextSlice(recentConversations) == SliceLast(recentConversations, ContextWindow)

\* Mutant: the headers are emitted whatever the lengths.
buildMemoryContextAlwaysHeaders(userId, recentConversations, userMemories) ==
    (<<HistoryHeader>> \o RenderConvs(ContextSlice(recentConversations), 1))
    \o (<<MemoriesHeader>> \o RenderMems(userMemories, 1))

buildMemoryContext(userId, recentConversations, userMemories) ==
    (IF Len(recentConversations) > 0
        THEN <<HistoryHeader>> \o RenderConvs(ContextSlice(recentConversations), 1)
        ELSE <<>>)
    \o
    (IF Len(userMemories) > 0
        THEN <<MemoriesHeader>> \o RenderMems(userMemories, 1)
        ELSE <<>>)

\* ------------------------------------------------------------ Ollama client

\* What GET /api/tags can do: the connection fails, a non-success status, a
\* body that is not JSON, the JSON body null, a JSON object without a models
\* field, a listing without the configured model, a listing with it.
TagsOutcomes ==
    {"connectionFailure", "notOk", "badBody", "nullBody", "noModels", "modelMissing",
     "modelListed"}

\* The try block of checkOllamaStatus: the value it returns, or that it threw
\* (fetch rejects, response.json() rejects, data.models of null).
CheckStatusTry(outcome) ==
    CASE outcome = "notOk" ->
            [threw |-> FALSE,
             value |-> [isRunning |-> FALSE, modelAvailable |-> FALSE,
                        error |-> "notResponding"]]
      [] outcome \in {"connectionFailure", "badBody", "nullBody"} ->
            [threw |-> TRUE,
             value |-> [isRunning |-> FALSE, modelAvailable |-> FALSE, error |-> "unset"]]
      [] outcome \in {"noModels", "modelMissing"} ->
            [threw |-> FALSE,
             value |-> [isRunning |-> TRUE, modelAvailable |-> FALSE,
                        error |-> "modelNotFound"]]
      [] OTHER ->
            [threw |-> FALSE,
             value |-> [isRunning |-> TRUE, modelAvailable |-> TRUE, error |-> "none"]]

\* Mutant: the try block without its catch.
checkOllamaStatusUncaught(outcome) == CheckStatusTry(outcome)

\* checkOllamaStatus: whatever the try block throws is caught and answered
\* with a status value.
checkOllamaStatus(outcome) ==
    LET tried == CheckStatusTry(outcome) IN
    IF tried.threw
        THEN [threw |-> FALSE,
              value |-> [isRunning |-> FALSE, modelAvailable |-> FALSE,
                         error |-> "failedToConnect"]]
        ELSE tried

IsSpace(c) == c \in {" ", "\n"}

\* String.prototype.trim
RECURSIVE TrimLeft(_)
TrimLeft(s) ==
    IF s # <<>> /\ IsSpace(Head(s)) THEN TrimLeft(Tail(s)) ELSE s

Trim(s) == Reverse(TrimLeft(Reverse(TrimLeft(s))))

\* formatResponse(response) with includePersonality = true
formatResponse(response) == Trim(response)

\* What POST /api/generate (stream: false) can do: the connection fails, a
\* non-success status, a body that is not JSON, a JSON body without a
\* response field, a JSON body with one.
GenerateTexts == { <<"a">>, <<" ", "b", " ">> }

GenerateOutcomes ==
    { [kind |-> k, response |-> Undefined] : k \in {"connectionFailure", "notOk", "badBody", "json"} }
    \cup { [kind |-> "json", response |-> Str(t)] : t \in GenerateTexts }

\* ollamaRequest: either throws or returns data.response.
ollamaRequest(outcome) ==
    IF outcome.kind = "json"
        THEN [threw |-> FALSE, value |-> outcome.response]
        ELSE [threw |-> TRUE, value |-> Undefined]

\* buffer.split('\n')
RECURSIVE SplitLines(_)
SplitLines(s) ==
    IF \A i \in 1..Len(s) : s[i] # "\n" THEN << s >>
    ELSE LET i == CHOOSE j \in 1..Len(s) :
                    /\ s[j] = "\n"
                    /\ \A k \in 1..(j - 1) : s[k] # "\n"
         IN  << SubSeq(s, 1, i - 1) >> \o SplitLines(SubSeq(s, i + 1, Len(s)))

\* Mutant: the unfinished line is dropped at the end of a read.
NextBufferDropped(lines) == <<>>

\* buffer = lines.pop() || ''
NextBuffer(lines) == lines[Len(lines)]

\* JSON.parse(line) followed by the reads of data.response and data.done.  A
\* well-formed stream record is two characters: the response fragment ("a",
\* "b", "e" for the empty string, "n" for an object without a response field)
\* and the done flag ("d" for true, "c" for false).  JSON.parse accepts
\* surrounding white space; anything else is a SyntaxError.
Fragments == {"a", "b", "e", "n"}

DoneFlags == {"c", "d"}

ParseLine(line) ==
    LET t == Trim(line) IN
    IF Len(t) = 2 /\ t[1] \in Fragments /\ t[2] \in DoneFlags
        THEN [ok |-> TRUE,
              response |-> CASE t[1] = "n" -> Undefined
                             [] t[1] = "e" -> Str(<<>>)
                             [] OTHER -> Str(<< t[1] >>),
              done |-> (t[2] = "d")]
        ELSE [ok |-> FALSE, response |-> Undefined, done |-> FALSE]

\* `${chunk}` as string concatenation renders it: undefined becomes the text
\* "undefined".
ToText(v) == IF v.def THEN v.s ELSE << "undefined" >>

\* The for-await loop of /chat over the lines of one read, which runs without
\* an await in between: ollamaStream skips blank and unparsable lines, yields
\* data.response, the loop body appends it to fullResponse and writes it, and
\* ollamaStream returns after a record with done = true.  res.write throws a
\* TypeError for a chunk that is not a string, which abandons the generator.
\* st is [fullResponse, written, yields, log, exit], exit one of "more" (lines
\* exhausted, read again), "returned", "writeThrew"; log is the order of what
\* happened: ollamaStream yielded a chunk, res.write was given a chunk, the
\* loop asked ollamaStream for the next chunk.
Event(ev, chunk) == [ev |-> ev, chunk |-> chunk]

\* Mutant: fullResponse = chunk in place of fullResponse += chunk.
RelayChunkOverwrites(st, data) ==
    IF ~data.response.def
        THEN [st EXCEPT !.fullResponse = ToText(data.response),
                        !.yields = @ + 1,
                        !.log = Append(@, Event("yield", data.response)),
                        !.exit = "writeThrew"]
        ELSE [st EXCEPT !.fullResponse = data.response.s,
                        !.written = Append(@, data.response.s),
                        !.yields = @ + 1,
                        !.log = @ \o << Event("yield", data.response),
                                        Event("write", data.response),
                                        Event("next", Undefined) >>,
                        !.exit = IF data.done THEN "returned" ELSE "more"]

\* Mutant: the chunks are kept back and written together when the stream is
\* over, which never comes for the writes.
RelayChunkBuffered(st, data) ==
    IF ~data.response.def
        THEN [st EXCEPT !.fullResponse = @ \o ToText(data.response),
                        !.yields = @ + 1,
                        !.log = Append(@, Event("yield", data.response)),
                        !.exit = "writeThrew"]
        ELSE [st EXCEPT !.fullResponse = @ \o data.response.s,
                        !.yields = @ + 1,
                        !.log = @ \o << Event("yield", data.response),
                                        Event("next", Undefined) >>,
                        !.exit = IF data.done THEN "returned" ELSE "more"]

\* The loop body over one yielded chunk: fullResponse += chunk; res.write(chunk);
\* then the loop asks for the next chunk, which resumes ollamaStream after its
\* yield.  A write that throws leaves the loop without asking.
RelayChunk(st, data) ==
    IF ~data.response.def
        THEN [st EXCEPT !.fullResponse = @ \o ToText(data.response),
                        !.yields = @ + 1,
                        !.log = Append(@, Event("yield", data.response)),
                        !.exit = "writeThrew"]
        ELSE [st EXCEPT !.fullResponse = @ \o data.response.s,
                        !.written = Append(@, data.response.s),
                        !.yields = @ + 1,
                        !.log = @ \o << Event("yield", data.response),
                                        Event("write", data.response),
                                        Event("next", Undefined) >>,
                        !.exit = IF data.done THEN "returned" ELSE "more"]

RECURSIVE RelayLines(_, _)
RelayLines(lines, st) ==
    IF lines = <<>> \/ st.exit # "more" THEN st
    ELSE LET line == Head(lines)
             data == ParseLine(line)
         IN  IF Trim(line) = <<>> \/ ~data.ok
                 THEN RelayLines(Tail(lines), st)
                 ELSE RelayLines(Tail(lines), RelayChunk(st, data))

\* Mutant: ollamaStream goes on after a record with done = true.
YieldLinesPastDone(lines, st) ==
    LET IsYielded(line) == Trim(line) # <<>> /\ ParseLine(line).ok
        kept == SelectSeq(lines, IsYielded)
    IN  [st EXCEPT !.yielded = @ \o [i \in 1..Len(kept) |-> ParseLine(kept[i]).response]]

\* Mutant: a line that JSON.parse rejects ends ollamaStream with the error.
RECURSIVE YieldLinesParseFatal(_, _)
YieldLinesParseFatal(lines, st) ==
    IF lines = <<>> \/ st.exit # "more" THEN st
    ELSE LET line == Head(lines)
             data == ParseLine(line)
         IN  IF Trim(line) = <<>>
                 THEN YieldLinesParseFatal(Tail(lines), st)
                 ELSE IF ~data.ok
                 THEN [st EXCEPT !.exit = "parseThrew"]
                 ELSE YieldLinesParseFatal(Tail(lines),
                        [st EXCEPT !.yielded = Append(@, data.response),
                                   !.exit = IF data.done THEN "returned" ELSE "more"])

\* The for loop of ollamaStream over the lines of one read, under a consumer
\* that takes every chunk and asks for the next: blank lines and lines that
\* JSON.parse rejects yield nothing, every other line yields data.response,
\* and the generator returns after a line with done = true.  st is
\* [yielded, exit], exit being "more" while the loop goes on.
RECURSIVE YieldLines(_, _)
YieldLines(lines, st) ==
    IF lines = <<>> \/ st.exit # "more" THEN st
    ELSE LET line == Head(lines)
             data == ParseLine(line)
         IN  IF Trim(line) = <<>> \/ ~data.ok
                 THEN YieldLines(Tail(lines), st)
                 ELSE YieldLines(Tail(lines),
                        [st EXCEPT !.yielded = Append(@, data.response),
                                   !.exit = IF data.done THEN "returned" ELSE "more"])

\* `\n\n${errorResponses.modelError}`
ModelErrorNotice == << "\n", "\n", "modelError" >>

\* ------------------------------------------------------------ memory store

\* A value that is an array, or null.
Rows(rows) == [def |-> TRUE, s |-> rows]

\* Mutant: message and response are stored in each other's column.
InsertConversationSwapped(table, userId, message, response) ==
    Append(table, [id |-> Len(table) + 1, user_id |-> userId, message |-> response,
                   response |-> message, created_at |-> Len(table) + 1])

\* Mutant: the exchange replaces the latest record of the user, when there is one.
InsertConversationMerged(table, userId, message, response) ==
    IF \E i \in DOMAIN table : table[i].user_id = userId
        THEN LET last == CHOOSE i \in DOMAIN table :
                            /\ table[i].user_id = userId
                            /\ \A j \in DOMAIN table : table[j].user_id = userId => j <= i
             IN  [table EXCEPT ![last].message = message, ![last].response = response]
        ELSE Append(table, [id |-> Len(table) + 1, user_id |-> userId, message |-> message,
                            response |-> response, created_at |-> Len(table) + 1])

\* .insert({user_id, message, response, metadata}).select().single()
InsertConversation(table, userId, message, response) ==
    Append(table, [id |-> Len(table) + 1, user_id |-> userId, message |-> message,
                   response |-> response, created_at |-> Len(table) + 1])

\* Mutant: a store error is thrown on to the caller.
logConversationRethrows(table, storeOk, userId, message, response) ==
    IF storeOk
        THEN [table |-> Append(table, [id |-> Len(table) + 1, user_id |-> userId,
                                       message |-> message, response |-> response,
                                       created_at |-> Len(table) + 1]),
              data |-> Len(table) + 1, threw |-> FALSE]
        ELSE [table |-> table, data |-> 0, threw |-> TRUE]

\* logConversation: the table afterwards, the returned data (the new row's id,
\* 0 for null), and whether the call threw.  A store error is caught and
\* answered with null.
logConversation(table, storeOk, userId, message, response) ==
    IF storeOk
        THEN [table |-> InsertConversation(table, userId, message, response),
              data |-> Len(table) + 1, threw |-> FALSE]
        ELSE [table |-> table, data |-> 0, threw |-> FALSE]

\* Mutant: {ascending: true}.
RECURSIVE OldestFirstOf(_, _)
OldestFirstOf(table, userId) ==
    IF table = <<>> THEN <<>>
    ELSE LET rest == OldestFirstOf(Tail(table), userId)
         IN  IF Head(table).user_id = userId THEN << Head(table) >> \o rest ELSE rest

\* .eq('user_id', userId).order(<time column>, {ascending: false}) over a
\* table kept in the order of that column.
RECURSIVE NewestFirstOf(_, _)
NewestFirstOf(table, userId) ==
    IF table = <<>> THEN <<>>
    ELSE LET last == table[Len(table)]
             rest == NewestFirstOf(SubSeq(table, 1, Len(table) - 1), userId)
         IN  IF last.user_id = userId THEN << last >> \o rest ELSE rest

\* Mutant: null, as storeMemory and recallMemory return, when the store fails.
recallRecentConversationsNull(table, storeOk, userId, limit) ==
    IF storeOk THEN Rows(Take(NewestFirstOf(table, userId), limit)) ELSE Undefined

\* recallRecentConversations(userId, limit): [] when the store fails.
recallRecentConversations(table, storeOk, userId, limit) ==
    IF storeOk THEN Rows(Take(NewestFirstOf(table, userId), limit)) ELSE Rows(<<>>)

\* Mutant: the rows of the user are filtered out instead of kept.
recallAllMemoriesNoRows(table, storeOk, userId) == Rows(<<>>)

\* recallAllMemories(userId), .order('updated_at', {ascending: false}): []
\* when the store fails.
recallAllMemories(table, storeOk, userId) ==
    IF storeOk THEN Rows(NewestFirstOf(table, userId)) ELSE Rows(<<>>)

\* .delete().eq('user_id', userId).eq('key', key): the rows left.
RECURSIVE WithoutKey(_, _, _)
WithoutKey(table, userId, key) ==
    IF table = <<>> THEN <<>>
    ELSE LET rest == WithoutKey(Tail(table), userId, key)
         IN  IF Head(table).user_id = userId /\ Head(table).key = key
                 THEN rest ELSE << Head(table) >> \o rest

HasKey(table, userId, key) ==
    \E i \in DOMAIN table : table[i].user_id = userId /\ table[i].key = key

\* recallMemory(userId, key), .select('value')...single(): the value of the
\* one row; null when the store fails or no row matches (.single() gives an
\* error), or when the value is empty.
recallMemory(table, storeOk, userId, key) ==
    IF storeOk /\ HasKey(table, userId, key)
        THEN LET row == CHOOSE i \in DOMAIN table :
                            table[i].user_id = userId /\ table[i].key = key
             IN  IF table[row].value # <<>> THEN Str(table[row].value) ELSE Undefined
        ELSE Undefined

\* .upsert({user_id, key, value, updated_at}) names no onConflict columns, so
\* the conflict target is the primary key, id, which the row leaves to its
\* default: the row is inserted as a new one, and UNIQUE(user_id, key) rejects
\* it when the table already holds a fact of that pair.  Rows are kept in the
\* order of their updated_at.
UpsertMemory(table, userId, key, value) ==
    IF HasKey(table, userId, key)
        THEN [error |-> TRUE, table |-> table]
        ELSE [error |-> FALSE,
              table |-> Append(table, [user_id |-> userId, key |-> key, value |-> value])]

\* storeMemory(userId, key, value): the table afterwards and the returned
\* data, the stored value of the row or null.  A store error, the unique
\* violation among them, is answered with null.
storeMemory(table, storeOk, userId, key, value) ==
    LET upserted == UpsertMemory(table, userId, key, value) IN
    IF storeOk /\ ~upserted.error
        THEN [table |-> upserted.table, data |-> Str(value)]
        ELSE [table |-> table, data |-> Undefined]

\* Mutant: false when no row matched.
deleteMemoryStrict(table, storeOk, userId, key) ==
    IF storeOk /\ HasKey(table, userId, key)
        THEN [table |-> WithoutKey(table, userId, key), success |-> TRUE]
        ELSE [table |-> table, success |-> FALSE]

\* deleteMemory(userId, key): the table afterwards and the returned boolean,
\* false when the store answered with an error.
deleteMemory(table, storeOk, userId, key) ==
    IF storeOk
        THEN [table |-> WithoutKey(table, userId, key), success |-> TRUE]
        ELSE [table |-> table, success |-> FALSE]

\* ------------------------------------------------------------------ state

\* POST /chat requests received.
MaxRequests == 1

\* POST /chat handlers that can be suspended at the same time.
MaxHandlers == 2

\* Conversation records already in the table when the server starts.
MaxStored == 2

\* reader.read() calls that return data, per stream.
MaxReads == 2

\* POST /memories/:userId requests served next to the chat requests.
MaxMemoryWrites == 1

\* Memory requests (store, delete) served in the endpoints specification.
MaxMemoryOps == 3

Handlers == 1..MaxHandlers

VARIABLES
    ctx,            \* a call of buildMemoryContext: its arguments, its result
    conversations,  \* the conversations table, in insertion order
    memories,       \* the memories table, least recently updated first
    memoryWrites,   \* memory requests (store, delete) served
    arrivals,       \* POST /chat requests received
    pc,             \* per handler: where it is suspended
    body,           \* per handler: req.body of its request
    client,         \* per handler: whether the caller's connection is open
    res,            \* per handler: the response as written so far
    loc,            \* per handler: its local variables
    reader,         \* per handler: response.body's reader in ollamaStream
    hist,           \* per handler: what it has called so far for its request
    api,            \* the last memory or status request served, and its answer
    gen             \* a call of ollamaStream: the wire, its buffer, its yields

vars == << ctx, conversations, memories, memoryWrites, arrivals, pc, body, client, res, loc,
           reader, hist, api, gen >>

chatVars == << conversations, memories, memoryWrites, arrivals, pc, body, client, res, loc,
               reader, hist >>

\* What one POST /chat handler has in its hands.
handlerVars == << arrivals, pc, body, client, res, loc, reader, hist >>

\* ------------------------------------------------------------ POST /chat

UserIds == { <<"u">>, <<"v">> }

ChatMessages == { <<"q">> }

\* req.body: a field is absent, the empty string, or a text.
BodyUserIds == {Undefined, Str(<<>>)} \cup { Str(u) : u \in UserIds }

BodyMessages == {Undefined, Str(<<>>)} \cup { Str(m) : m \in ChatMessages }

\* The caller served by a handler other than the first sends another message.
BodyMessagesOf(r) ==
    IF r = 1 THEN BodyMessages ELSE {Undefined, Str(<<>>)} \cup { Str(<< "s" >>) }

\* What the backend may send in one read of the streamed body.
WireReads ==
    { <<"a", "c", "\n">>,
      <<"b", "c", "\n", "e", "d", "\n">>,
      <<"n", "c", "\n">> }

NoBody == [message |-> Undefined, userId |-> Undefined, stream |-> FALSE]

\* ends counts the calls of res.json() and res.end().
NewRes == [statusCode |-> 200, contentType |-> "none", written |-> <<>>,
           error |-> "none", response |-> Undefined, ended |-> FALSE, ends |-> 0]

NoStatus == [isRunning |-> FALSE, modelAvailable |-> FALSE, error |-> "unset"]

NewLoc == [ollamaStatus |-> NoStatus, recentConversations |-> Rows(<<>>),
           userMemories |-> Rows(<<>>), fullPrompt |-> <<>>,
           response |-> Undefined, fullResponse |-> <<>>]

NewReader == [state |-> "none", buffer |-> <<>>, reads |-> 0, releases |-> 0, log |-> <<>>]

\* calls: the calls the handler made and the events it met, in order;
\* inserted: the ids of the rows it inserted; failed: the store calls of it
\* that met a store error.
NewHist == [calls |-> <<>>, inserted |-> {}, failed |-> {}]

\* Mutant: && in place of ||.
MissingFieldsBothAbsent(message, userId) == ~Truthy(message) /\ ~Truthy(userId)

\* if (!message || !userId)
MissingFields(message, userId) == ~Truthy(message) \/ ~Truthy(userId)

\* Mutant: the modelAvailable check is left out.
StatusVerdictIgnoresModel(ollamaStatus) ==
    IF ~ollamaStatus.isRunning THEN "notRunning" ELSE "ready"

\* if (!ollamaStatus.isRunning) ... if (!ollamaStatus.modelAvailable) ...
StatusVerdict(ollamaStatus) ==
    IF ~ollamaStatus.isRunning THEN "notRunning"
    ELSE IF ~ollamaStatus.modelAvailable THEN "modelNotAvailable"
    ELSE "ready"

\* res.status(code).json({error, ...})
JsonError(r, code, error) ==
    res' = [res EXCEPT ![r] = [@ EXCEPT !.statusCode = code, !.contentType = "json",
                                        !.error = error, !.ended = TRUE,
                                        !.ends = @ + 1]]

Called(r, name) == hist' = [hist EXCEPT ![r].calls = Append(@, name)]

\* `${huePersona.systemPrompt}\n\n${memoryContext}\n\nUser: ${message}\nHue:`
FullPrompt(memoryContext, message) ==
    << Line("system", 0, <<>>, <<>>) >> \o memoryContext
    \o << Line("turn", 0, message, <<>>) >>

\* A request arrives at handler r, which is free: express runs the handler
\* with a new req and res and new locals.  The handler validates the request
\* and calls checkOllamaStatus.  limit is the number of requests that arrive.
Arrive(r, limit) ==
    /\ pc[r] \in {"idle", "Done", "Errored"}
    /\ arrivals < limit
    /\ arrivals' = arrivals + 1
    /\ \E message \in BodyMessagesOf(r), userId \in BodyUserIds, stream \in BOOLEAN :
        /\ body' = [body EXCEPT ![r] = [message |-> message, userId |-> userId,
                                        stream |-> stream]]
        /\ IF MissingFields(message, userId)
              THEN /\ res' = [res EXCEPT ![r] = [NewRes EXCEPT
                                !.statusCode = 400, !.contentType = "json",
                                !.error = "missingFields", !.ended = TRUE,
                                !.ends = 1]]
                   /\ pc' = [pc EXCEPT ![r] = "Errored"]
                   /\ hist' = [hist EXCEPT ![r] = NewHist]
              ELSE /\ res' = [res EXCEPT ![r] = NewRes]
                   /\ pc' = [pc EXCEPT ![r] = "CheckingBackend"]
                   /\ hist' = [hist EXCEPT ![r] = [NewHist EXCEPT
                                !.calls = << "checkOllamaStatus" >>]]
    /\ client' = [client EXCEPT ![r] = "open"]
    /\ loc' = [loc EXCEPT ![r] = NewLoc]
    /\ reader' = [reader EXCEPT ![r] = NewReader]
    /\ UNCHANGED << ctx, api, gen, conversations, memories, memoryWrites >>

Receive(r) == Arrive(r, MaxRequests)

\* checkOllamaStatus resolves; on success the handler calls
\* recallRecentConversations.  Had it thrown, the outer catch would answer 500.
StatusChecked(r) ==
    /\ pc[r] = "CheckingBackend"
    /\ \E outcome \in TagsOutcomes :
        LET status == checkOllamaStatus(outcome)
            ollamaStatus == status.value
            verdict == StatusVerdict(ollamaStatus)
        IN  /\ loc' = [loc EXCEPT ![r].ollamaStatus = ollamaStatus]
            /\ IF status.threw
                  THEN /\ JsonError(r, 500, "failedToProcess")
                       /\ pc' = [pc EXCEPT ![r] = "Errored"]
                       /\ UNCHANGED hist
                  ELSE IF verdict = "ready"
                  THEN /\ pc' = [pc EXCEPT ![r] = "FetchingConversations"]
                       /\ Called(r, "recallRecentConversations")
                       /\ UNCHANGED res
                  ELSE /\ JsonError(r, 503, verdict)
                       /\ pc' = [pc EXCEPT ![r] = "Errored"]
                       /\ UNCHANGED hist
    /\ UNCHANGED << ctx, api, gen, conversations, memories, memoryWrites, arrivals, body, client, reader >>

\* recallRecentConversations(userId, 5) resolves; the handler calls
\* recallAllMemories.
ConversationsRecalled(r) ==
    /\ pc[r] = "FetchingConversations"
    /\ \E storeOk \in BOOLEAN :
        /\ loc' = [loc EXCEPT ![r].recentConversations =
                        recallRecentConversations(conversations, storeOk,
                                                  body[r].userId.s, RecallLimit)]
        /\ hist' = [hist EXCEPT
                        ![r].calls = Append(@, "recallAllMemories"),
                        ![r].failed = IF storeOk THEN @
                                      ELSE @ \cup {"recallRecentConversations"}]
    /\ pc' = [pc EXCEPT ![r] = "FetchingMemories"]
    /\ UNCHANGED << ctx, api, gen, conversations, memories, memoryWrites, arrivals, body, client, res, reader >>

\* recallAllMemories resolves; the handler builds the prompt and dispatches
\* it: the first next() of ollamaStream (which fetches), or ollamaRequest.
\* Reading .length of null in buildMemoryContext would throw a TypeError,
\* which the outer catch answers 500.
MemoriesRecalled(r) ==
    /\ pc[r] = "FetchingMemories"
    /\ \E storeOk \in BOOLEAN :
        LET recentConversations == loc[r].recentConversations
            userMemories == recallAllMemories(memories, storeOk, body[r].userId.s)
            failed == IF storeOk THEN hist[r].failed
                      ELSE hist[r].failed \cup {"recallAllMemories"}
        IN  IF ~recentConversations.def \/ ~userMemories.def
            THEN /\ loc' = [loc EXCEPT ![r].userMemories = userMemories]
                 /\ JsonError(r, 500, "failedToProcess")
                 /\ pc' = [pc EXCEPT ![r] = "Errored"]
                 /\ hist' = [hist EXCEPT ![r].failed = failed]
            ELSE /\ loc' = [loc EXCEPT
                        ![r].userMemories = userMemories,
                        ![r].fullPrompt =
                            FullPrompt(buildMemoryContext(body[r].userId.s,
                                           recentConversations.s, userMemories.s),
                                       body[r].message.s)]
                 /\ IF body[r].stream
                       THEN /\ res' = [res EXCEPT ![r].contentType = "text/plain"]
                            /\ pc' = [pc EXCEPT ![r] = "Streaming"]
                            /\ hist' = [hist EXCEPT ![r].calls = Append(@, "ollamaStream"),
                                                    ![r].failed = failed]
                       ELSE /\ pc' = [pc EXCEPT ![r] = "Completing"]
                            /\ hist' = [hist EXCEPT ![r].calls = Append(@, "ollamaRequest"),
                                                    ![r].failed = failed]
                            /\ UNCHANGED res
    /\ UNCHANGED << ctx, api, gen, conversations, memories, memoryWrites, arrivals, body, client, reader >>

\* Mutant: res.json() ahead of the await of logConversation.
CompletedRepliesFirst(r) ==
    /\ pc[r] = "Completing"
    /\ \E outcome \in GenerateOutcomes :
        LET result == ollamaRequest(outcome) IN
        IF result.threw \/ ~result.value.def
            THEN /\ JsonError(r, 500, "failedToProcess")
                 /\ pc' = [pc EXCEPT ![r] = "Errored"]
                 /\ loc' = [loc EXCEPT ![r].response = result.value]
                 /\ UNCHANGED hist
            ELSE /\ loc' = [loc EXCEPT ![r].response = result.value,
                                       ![r].fullResponse = formatResponse(result.value.s)]
                 /\ pc' = [pc EXCEPT ![r] = "Persisting"]
                 /\ Called(r, "logConversation")
                 /\ res' = [res EXCEPT ![r].contentType = "json",
                                       ![r].response = Str(formatResponse(result.value.s)),
                                       ![r].ended = TRUE, ![r].ends = @ + 1]
    /\ UNCHANGED << ctx, api, gen, conversations, memories, memoryWrites, arrivals, body,
                    client, reader >>

\* Mutant: a failed ollamaRequest is logged with an empty response.
CompletedLogsFailure(r) ==
    /\ pc[r] = "Completing"
    /\ \E outcome \in GenerateOutcomes :
        LET result == ollamaRequest(outcome) IN
        /\ loc' = [loc EXCEPT ![r].response = result.value,
                              ![r].fullResponse = IF result.value.def
                                                     THEN formatResponse(result.value.s)
                                                     ELSE <<>>]
        /\ pc' = [pc EXCEPT ![r] = "Persisting"]
        /\ Called(r, "logConversation")
        /\ UNCHANGED res
    /\ UNCHANGED << ctx, api, gen, conversations, memories, memoryWrites, arrivals, body, client, reader >>

\* ollamaRequest settles: a throw is answered 500; a reply is formatted
\* (undefined.trim() throws, answered 500) and logConversation is called.
Completed(r) ==
    /\ pc[r] = "Completing"
    /\ \E outcome \in GenerateOutcomes :
        LET result == ollamaRequest(outcome) IN
        IF result.threw \/ ~result.value.def
            THEN /\ JsonError(r, 500, "failedToProcess")
                 /\ pc' = [pc EXCEPT ![r] = "Errored"]
                 /\ loc' = [loc EXCEPT ![r].response = result.value]
                 /\ UNCHANGED hist
            ELSE /\ loc' = [loc EXCEPT ![r].response = result.value,
                                       ![r].fullResponse = formatResponse(result.value.s)]
                 /\ pc' = [pc EXCEPT ![r] = "Persisting"]
                 /\ Called(r, "logConversation")
                 /\ UNCHANGED res
    /\ UNCHANGED << ctx, api, gen, conversations, memories, memoryWrites, arrivals, body, client, reader >>

\* Mutant: the catch ends the response without writing the notice.
StreamFailedSilently(r, st) ==
    /\ res' = [res EXCEPT ![r].written = st.written, ![r].ended = TRUE,
                          ![r].ends = @ + 1]
    /\ loc' = [loc EXCEPT ![r].fullResponse = st.fullResponse]
    /\ pc' = [pc EXCEPT ![r] = "Errored"]

\* Mutant: the failure is passed to the outer catch, which answers 500.
StreamFailedAnswers500(r, st) ==
    /\ JsonError(r, 500, "failedToProcess")
    /\ loc' = [loc EXCEPT ![r].fullResponse = st.fullResponse]
    /\ pc' = [pc EXCEPT ![r] = "Errored"]

\* The catch of the streaming branch: the notice is written, the response ended.
StreamFailed(r, st) ==
    /\ res' = [res EXCEPT ![r].written = Append(st.written, ModelErrorNotice),
                          ![r].ended = TRUE, ![r].ends = @ + 1]
    /\ loc' = [loc EXCEPT ![r].fullResponse = st.fullResponse]
    /\ pc' = [pc EXCEPT ![r] = "Errored"]

\* Mutant: fullResponse is one variable of the module, shared by the handlers.
RelayStateShared(r) ==
    [fullResponse |-> loc[1].fullResponse, written |-> res[r].written,
     yields |-> 0, log |-> reader[r].log, exit |-> "more"]

RelayState(r) ==
    [fullResponse |-> loc[r].fullResponse, written |-> res[r].written,
     yields |-> 0, log |-> reader[r].log, exit |-> "more"]

\* The fetch of ollamaStream settles: a throw (connection failure, non-success
\* status, no body) reaches the catch of the streaming branch; otherwise the
\* reader is acquired and read.
StreamOpened(r) ==
    /\ pc[r] = "Streaming"
    /\ reader[r].state = "none"
    /\ \E outcome \in {"connectionFailure", "notOk", "noBody", "ok"} :
        IF outcome = "ok"
            THEN /\ reader' = [reader EXCEPT ![r].state = "locked"]
                 /\ Called(r, "read")
                 /\ UNCHANGED << res, loc, pc >>
            ELSE /\ StreamFailed(r, RelayState(r))
                 /\ Called(r, "ollamaStreamThrew")
                 /\ UNCHANGED reader
    /\ UNCHANGED << ctx, api, gen, conversations, memories, memoryWrites, arrivals, body, client >>

\* Mutant: no finally, the lock is kept.
ReleaseSkipped(rd) == rd

\* reader.releaseLock() in the finally of ollamaStream.
Released(rd) == [rd EXCEPT !.state = "released", !.releases = @ + 1]

\* reader.read() settles.  A rejection releases the lock and reaches the catch
\* of the streaming branch; done releases the lock and ends the loop, and the
\* handler calls logConversation; data is split into lines and relayed.
StreamRead(r) ==
    /\ pc[r] = "Streaming"
    /\ reader[r].state = "locked"
    /\ \/ /\ reader' = [reader EXCEPT ![r] = Released(@)]
          /\ StreamFailed(r, RelayState(r))
          /\ Called(r, "ollamaStreamThrew")
       \/ /\ reader' = [reader EXCEPT ![r] = Released(@)]
          /\ pc' = [pc EXCEPT ![r] = "Persisting"]
          /\ Called(r, "logConversation")
          /\ UNCHANGED << res, loc >>
       \/ /\ reader[r].reads < MaxReads
          /\ \E value \in WireReads :
              LET lines == SplitLines(reader[r].buffer \o value)
                  st == RelayLines(SubSeq(lines, 1, Len(lines) - 1), RelayState(r))
                  rd == [reader[r] EXCEPT !.buffer = NextBuffer(lines), !.reads = @ + 1,
                                          !.log = st.log]
              IN  CASE st.exit = "more" ->
                        /\ reader' = [reader EXCEPT ![r] = rd]
                        /\ res' = [res EXCEPT ![r].written = st.written]
                        /\ loc' = [loc EXCEPT ![r].fullResponse = st.fullResponse]
                        /\ Called(r, "read")
                        /\ UNCHANGED pc
                    [] st.exit = "returned" ->
                        /\ reader' = [reader EXCEPT ![r] = Released(rd)]
                        /\ res' = [res EXCEPT ![r].written = st.written]
                        /\ loc' = [loc EXCEPT ![r].fullResponse = st.fullResponse]
                        /\ pc' = [pc EXCEPT ![r] = "Persisting"]
                        /\ Called(r, "logConversation")
                    [] OTHER ->
                        /\ reader' = [reader EXCEPT ![r] = Released(rd)]
                        /\ StreamFailed(r, st)
                        /\ Called(r, "writeThrew")
    /\ UNCHANGED << ctx, api, gen, conversations, memories, memoryWrites, arrivals, body, client >>

\* Mutant: logConversation is called again when the store failed.
PersistedRetries(r) ==
    /\ pc[r] = "Persisting"
    /\ \E storeOk \in BOOLEAN :
        LET logged == logConversation(conversations, storeOk, body[r].userId.s,
                                      body[r].message.s, loc[r].fullResponse)
        IN  /\ conversations' = logged.table
            /\ IF storeOk
                  THEN /\ hist' = [hist EXCEPT ![r].inserted = @ \cup {logged.data}]
                       /\ pc' = [pc EXCEPT ![r] = "Done"]
                       /\ IF body[r].stream
                             THEN res' = [res EXCEPT ![r].ended = TRUE, ![r].ends = @ + 1]
                             ELSE res' = [res EXCEPT ![r].contentType = "json",
                                                     ![r].response = Str(loc[r].fullResponse),
                                                     ![r].ended = TRUE, ![r].ends = @ + 1]
                  ELSE /\ hist' = [hist EXCEPT ![r].calls = Append(@, "logConversation"),
                                               ![r].failed = @ \cup {"logConversation"}]
                       /\ UNCHANGED << pc, res >>
    /\ UNCHANGED << ctx, api, gen, memories, memoryWrites, arrivals, body, client, loc, reader >>

\* logConversation settles: the record is inserted, or the store failed and
\* null is returned; either way the reply goes out.  Had it thrown, the
\* streaming branch's catch would write the notice and the outer catch would
\* answer 500.
Persisted(r) ==
    /\ pc[r] = "Persisting"
    /\ \E storeOk \in BOOLEAN :
        LET logged == logConversation(conversations, storeOk, body[r].userId.s,
                                      body[r].message.s, loc[r].fullResponse)
        IN  /\ conversations' = logged.table
            /\ hist' = [hist EXCEPT
                            ![r].inserted = IF logged.data # 0 THEN @ \cup {logged.data} ELSE @,
                            ![r].failed = IF storeOk THEN @ ELSE @ \cup {"logConversation"}]
            /\ IF logged.threw
                  THEN /\ pc' = [pc EXCEPT ![r] = "Errored"]
                       /\ IF body[r].stream
                             THEN res' = [res EXCEPT
                                            ![r].written = Append(@, ModelErrorNotice),
                                            ![r].ended = TRUE, ![r].ends = @ + 1]
                             ELSE JsonError(r, 500, "failedToProcess")
                  ELSE /\ pc' = [pc EXCEPT ![r] = "Done"]
                       /\ IF body[r].stream
                             THEN res' = [res EXCEPT ![r].ended = TRUE, ![r].ends = @ + 1]
                             ELSE res' = [res EXCEPT ![r].contentType = "json",
                                                     ![r].response = Str(loc[r].fullResponse),
                                                     ![r].ended = TRUE, ![r].ends = @ + 1]
    /\ UNCHANGED << ctx, api, gen, memories, memoryWrites, arrivals, body, client, loc, reader >>

\* The caller closes its connection while the streamed response is in progress.
\* Nothing in the handler listens for it; later writes to the response are
\* dropped by the HTTP layer without an exception.
ClientCloses(r) ==
    /\ pc[r] = "Streaming"
    /\ client[r] = "open"
    /\ client' = [client EXCEPT ![r] = "closed"]
    /\ Called(r, "clientClose")
    /\ UNCHANGED << ctx, api, gen, conversations, memories, memoryWrites, arrivals, pc, body, res, loc, reader >>

\* ------------------------------------------- memory and status endpoints

MemoryKeys == { <<"k">> }

MemoryValues == { <<"x">>, <<"y">> }

\* req.body of POST /memories/:userId: value is absent, or a text.
BodyKeys == { Str(k) : k \in MemoryKeys }

BodyValues == {Undefined} \cup { Str(v) : v \in MemoryValues }

\* The value of the facts stored next to the chat requests.
ChatFactValues == { Str(<<"x">>) }

\* if (!key || !value)
MissingMemoryFields(key, value) == ~Truthy(key) \/ ~Truthy(value)

\* op: the endpoint; userId, key, value: its inputs; before: the memories table
\* when the request arrived; statusCode and result: the answer, result being
\* "memory" or "null" for {memory}, "true" or "false" for {success}, "status"
\* for a status value (held in status), "error" for an error body; storeOk:
\* whether the store answered the request's query without an outage; backend:
\* what GET /api/tags did for a status request.
NoApi == [op |-> "none", userId |-> <<>>, key |-> Undefined, value |-> Undefined,
          before |-> <<>>, storeOk |-> TRUE, backend |-> "none", statusCode |-> 0,
          result |-> "none", status |-> NoStatus]

\* The answer of a memory request is kept in api when the specification
\* observes the endpoint, and dropped when it observes the chat pipeline.
Answered(observed, answer) ==
    api' = IF observed THEN answer ELSE api

\* POST /memories/:userId: 400 without key or value; otherwise storeMemory is
\* awaited and its result sent as {memory}.  values are the values of
\* req.body.value the requests come with.
StoreMemory(limit, values, observed) ==
    /\ memoryWrites < limit
    /\ \E userId \in UserIds, key \in BodyKeys, value \in values, storeOk \in BOOLEAN :
        LET request == [NoApi EXCEPT !.op = "store", !.userId = userId, !.key = key,
                                     !.value = value, !.before = memories]
        IN  IF MissingMemoryFields(key, value)
            THEN /\ Answered(observed, [request EXCEPT !.statusCode = 400,
                                                            !.result = "error"])
                 /\ UNCHANGED memories
            ELSE LET stored == storeMemory(memories, storeOk, userId, key.s, value.s)
                 IN  /\ memories' = stored.table
                     /\ Answered(observed, [request EXCEPT
                                    !.storeOk = storeOk,
                                    !.statusCode = 200,
                                    !.result = IF stored.data.def THEN "memory" ELSE "null"])
    /\ memoryWrites' = memoryWrites + 1
    /\ UNCHANGED << ctx, gen, conversations, handlerVars >>

\* DELETE /memories/:userId/:key: deleteMemory is awaited and its result sent
\* as {success}.
DeleteMemory(limit, observed) ==
    /\ memoryWrites < limit
    /\ \E userId \in UserIds, key \in MemoryKeys, storeOk \in BOOLEAN :
        LET deleted == deleteMemory(memories, storeOk, userId, key)
        IN  /\ memories' = deleted.table
            /\ Answered(observed,
                        [NoApi EXCEPT !.op = "delete", !.userId = userId, !.key = Str(key),
                                      !.before = memories, !.storeOk = storeOk,
                                      !.statusCode = 200,
                                      !.result = IF deleted.success THEN "true" ELSE "false"])
    /\ memoryWrites' = memoryWrites + 1
    /\ UNCHANGED << ctx, gen, conversations, handlerVars >>

\* GET /memories/:userId: recallAllMemories is awaited and its result sent as
\* {memories}.
GetMemories ==
    /\ \E userId \in UserIds, storeOk \in BOOLEAN :
        LET recalled == recallAllMemories(memories, storeOk, userId)
            request == [NoApi EXCEPT !.op = "recallAll", !.userId = userId,
                                     !.before = memories, !.storeOk = storeOk]
        IN  api' = [request EXCEPT !.statusCode = 200,
                            !.result = IF recalled.s = <<>> THEN "empty" ELSE "memories"]
    /\ UNCHANGED << ctx, gen, conversations, memories, memoryWrites, handlerVars >>

\* GET /memories/:userId/:key: recallMemory is awaited and its result sent as
\* {key, value}.
GetMemory ==
    /\ \E userId \in UserIds, key \in MemoryKeys, storeOk \in BOOLEAN :
        LET value == recallMemory(memories, storeOk, userId, key)
        IN  api' = [NoApi EXCEPT !.op = "recall", !.userId = userId, !.key = Str(key),
                                 !.value = value, !.before = memories,
                                 !.storeOk = storeOk, !.statusCode = 200,
                                 !.result = IF value.def THEN "value" ELSE "null"]
    /\ UNCHANGED << ctx, gen, conversations, memories, memoryWrites, handlerVars >>

\* GET /ollama/status: checkOllamaStatus is awaited and its value sent; had it
\* thrown, the catch would answer 500.
OllamaStatus ==
    /\ \E outcome \in TagsOutcomes :
        LET status == checkOllamaStatus(outcome)
        IN  api' = IF status.threw
                      THEN [NoApi EXCEPT !.op = "status", !.backend = outcome,
                                         !.statusCode = 500, !.result = "error"]
                      ELSE [NoApi EXCEPT !.op = "status", !.backend = outcome,
                                         !.statusCode = 200, !.result = "status",
                                         !.status = status.value]
    /\ UNCHANGED << ctx, gen, conversations, memories, memoryWrites, handlerVars >>

\* The records of earlier exchanges of user "u" found in the table at start.
StoredBefore(k) ==
    [i \in 1..k |-> [id |-> i, user_id |-> <<"u">>, message |-> <<"p">>,
                     response |-> IF i % 2 = 1 THEN <<"a">> ELSE <<"b">>,
                     created_at |-> i]]

ChatIdle ==
    /\ memories = <<>>
    /\ memoryWrites = 0
    /\ arrivals = 0
    /\ pc = [r \in Handlers |-> "idle"]
    /\ body = [r \in Handlers |-> NoBody]
    /\ client = [r \in Handlers |-> "open"]
    /\ res = [r \in Handlers |-> NewRes]
    /\ loc = [r \in Handlers |-> NewLoc]
    /\ reader = [r \in Handlers |-> NewReader]
    /\ hist = [r \in Handlers |-> NewHist]
    /\ api = NoApi

\* No call of ollamaStream under observation.  reads counts the reads that
\* returned data; split tells whether one of them ended inside a line.
NoGen == [state |-> "none", wire |-> <<>>, received |-> <<>>, buffer |-> <<>>,
          reads |-> 0, split |-> FALSE, yielded |-> <<>>]

Init ==
    /\ ctx = [pc |-> "none", convs |-> <<>>, mems |-> <<>>, out |-> <<>>]
    /\ \E k \in 0..MaxStored : conversations = StoredBefore(k)
    /\ gen = NoGen
    /\ ChatIdle

Step(r) ==
    \/ Receive(r)
    \/ StatusChecked(r)
    \/ ConversationsRecalled(r)
    \/ MemoriesRecalled(r)
    \/ Completed(r)
    \/ StreamOpened(r)
    \/ StreamRead(r)
    \/ Persisted(r)
    \/ ClientCloses(r)

\* The server answering one chat request at a time, through handler 1, and
\* memory requests (store, delete) in between.
Next ==
    \/ Step(1)
    \/ StoreMemory(MaxMemoryWrites, ChatFactValues, FALSE)
    \/ DeleteMemory(MaxMemoryWrites, FALSE)

Spec == Init /\ [][Next]_vars

\* The same, when every call the handler awaits settles (the status check, the
\* store queries, the fetch, each read of the streamed body) and the streamed
\* body ends: the handler then goes on to its next step.
SpecFair == Spec /\ WF_vars(Step(1))

\* ------------------------------------- specification: concurrent requests

ConcStep(r) ==
    \/ Arrive(r, MaxHandlers)
    \/ StatusChecked(r)
    \/ ConversationsRecalled(r)
    \/ MemoriesRecalled(r)
    \/ Completed(r)
    \/ StreamOpened(r)
    \/ StreamRead(r)
    \/ Persisted(r)
    \/ ClientCloses(r)

ConcInit ==
    /\ ctx = [pc |-> "none", convs |-> <<>>, mems |-> <<>>, out |-> <<>>]
    /\ conversations = <<>>
    /\ gen = NoGen
    /\ ChatIdle

\* As many chat requests as there are handlers, each taken by a free handler:
\* at the same time by different handlers, in any interleaving of their
\* steps, or one after the other.
ConcNext == \E r \in Handlers : ConcStep(r)

SpecConc == ConcInit /\ [][ConcNext]_vars

\* ------------------------------------- specification: requests in sequence

\* Chat requests that arrive one after the other.
MaxSequential == 2

\* The table is empty, or holds as many records of user "u" as a chat request
\* recalls.
SeqInit ==
    /\ ctx = [pc |-> "none", convs |-> <<>>, mems |-> <<>>, out |-> <<>>]
    /\ \E k \in {0, RecallLimit} : conversations = StoredBefore(k)
    /\ gen = NoGen
    /\ ChatIdle

\* Each request arrives when the one before it has been answered.
SeqNext ==
    \/ Arrive(1, MaxSequential)
    \/ StatusChecked(1)
    \/ ConversationsRecalled(1)
    \/ MemoriesRecalled(1)
    \/ Completed(1)
    \/ StreamOpened(1)
    \/ StreamRead(1)
    \/ Persisted(1)
    \/ ClientCloses(1)

SpecSeq == SeqInit /\ [][SeqNext]_vars

\* --------------------------------------- specification: the context builder

CtxMessages == { <<"p">>, <<"q">> }

CtxKeys == { <<"k">> }

CtxValues == { <<"v">>, <<"w">> }

\* A result of recallRecentConversations: k records, most recent first, so the
\* record at position i was created at time k + 1 - i.
ConvList(k, msgs) ==
    [i \in 1..k |-> [id |-> k + 1 - i, user_id |-> <<"u">>, message |-> msgs[i],
                     response |-> <<"r">>, created_at |-> k + 1 - i]]

ConvLists == UNION { { ConvList(k, msgs) : msgs \in [1..k -> CtxMessages] } : k \in 0..MaxConvs }

MemList(k, vals) ==
    [i \in 1..k |-> [user_id |-> <<"u">>, key |-> <<"k">>, value |-> vals[i]]]

MemLists == UNION { { MemList(k, vals) : vals \in [1..k -> CtxValues] } : k \in 0..MaxMems }

CtxInit ==
    /\ \E convs \in ConvLists, mems \in MemLists :
        ctx = [pc |-> "call", convs |-> convs, mems |-> mems, out |-> <<>>]
    /\ conversations = <<>>
    /\ gen = NoGen
    /\ ChatIdle

CtxBuild ==
    /\ ctx.pc = "call"
    /\ ctx' = [ctx EXCEPT !.pc = "returned",
                          !.out = buildMemoryContext(<<"u">>, ctx.convs, ctx.mems)]
    /\ UNCHANGED << chatVars, api, gen >>

CtxNext == CtxBuild

SpecCtx == CtxInit /\ [][CtxNext]_vars

\* ------------------------------------------ specification: ollamaStream

\* Lines the backend sends in the streamed body.
MaxWireLines == 3

\* The lines of the streamed body: records with a fragment, the closing
\* record (empty fragment, done), a line that is not JSON, a blank line.
WireLineKinds == { <<"a", "c">>, <<"b", "c">>, <<"e", "d">>, <<"x">>, <<>> }

RECURSIVE WireOf(_)
WireOf(lines) ==
    IF lines = <<>> THEN <<>> ELSE Head(lines) \o << "\n" >> \o WireOf(Tail(lines))

Wires ==
    UNION { { WireOf(lines) : lines \in [1..k -> WireLineKinds] } : k \in 0..MaxWireLines }

\* ollamaStream(prompt) is called and its first next() awaits the fetch.  wire
\* is what the backend has still to send, received what came in so far.
GenInit ==
    /\ ctx = [pc |-> "none", convs |-> <<>>, mems |-> <<>>, out |-> <<>>]
    /\ conversations = <<>>
    /\ \E wire \in Wires : gen = [NoGen EXCEPT !.state = "fetching", !.wire = wire]
    /\ ChatIdle

\* The fetch settles: a rejection, a non-success status or a missing body is
\* thrown to the consumer; otherwise the reader is acquired and read.
GenOpen ==
    /\ gen.state = "fetching"
    /\ \E outcome \in {"connectionFailure", "notOk", "noBody", "ok"} :
        gen' = [gen EXCEPT !.state = IF outcome = "ok" THEN "reading" ELSE "fetchThrew"]
    /\ UNCHANGED << ctx, api, chatVars >>

\* reader.read() returns some of what the backend has still to send, cut at
\* any character: the complete lines of the buffer are gone through, the rest
\* is kept in the buffer.  After a return the lock is released.
GenRead ==
    /\ gen.state = "reading"
    /\ \E n \in 1..Len(gen.wire) :
        LET value == SubSeq(gen.wire, 1, n)
            lines == SplitLines(gen.buffer \o value)
            st == YieldLines(SubSeq(lines, 1, Len(lines) - 1),
                             [yielded |-> gen.yielded, exit |-> "more"])
        IN  gen' = [gen EXCEPT !.wire = SubSeq(gen.wire, n + 1, Len(gen.wire)),
                               !.received = @ \o value,
                               !.buffer = NextBuffer(lines),
                               !.reads = @ + 1,
                               !.split = @ \/ NextBuffer(lines) # <<>>,
                               !.yielded = st.yielded,
                               !.state = IF st.exit = "more" THEN "reading" ELSE st.exit]
    /\ UNCHANGED << ctx, api, chatVars >>

\* reader.read() returns done: the connection closed, whether or not the
\* backend had more to send.  The loop breaks and the lock is released.
GenClose ==
    /\ gen.state = "reading"
    /\ gen' = [gen EXCEPT !.state = "closed"]
    /\ UNCHANGED << ctx, api, chatVars >>

\* reader.read() rejects: the lock is released and the error thrown on.
GenReject ==
    /\ gen.state = "reading"
    /\ gen' = [gen EXCEPT !.state = "readThrew"]
    /\ UNCHANGED << ctx, api, chatVars >>

GenNext ==
    \/ GenOpen
    \/ GenRead
    \/ GenClose
    \/ GenReject

SpecStream == GenInit /\ [][GenNext]_vars

\* ------------------------------ specification: memory and status endpoints

ApiInit ==
    /\ ctx = [pc |-> "none", convs |-> <<>>, mems |-> <<>>, out |-> <<>>]
    /\ conversations = <<>>
    /\ gen = NoGen
    /\ ChatIdle

ApiNext ==
    \/ StoreMemory(MaxMemoryOps, BodyValues, TRUE)
    \/ DeleteMemory(MaxMemoryOps, TRUE)
    \/ GetMemories
    \/ GetMemory
    \/ OllamaStatus

SpecApi == ApiInit /\ [][ApiNext]_vars


\* ------------------------------------------------------------------ claims

Valid(r) == Truthy(body[r].message) /\ Truthy(body[r].userId)

Has(r, name) == \E i \in DOMAIN hist[r].calls : hist[r].calls[i] = name

CountCalls(r, name) == Cardinality({ i \in DOMAIN hist[r].calls : hist[r].calls[i] = name })

RECURSIVE Flatten(_)
Flatten(chunks) == IF chunks = <<>> THEN <<>> ELSE Head(chunks) \o Flatten(Tail(chunks))

IsUserLine(l) == l.kind = "user"

IsHueLine(l) == l.kind = "hue"

\* The (message, response) pairs a rendered block shows, in the order shown.
RenderedPairs(lines) ==
    LET users == SelectSeq(lines, IsUserLine)
        hues == SelectSeq(lines, IsHueLine)
    IN  [i \in 1..Len(users) |-> << users[i].a, hues[i].a >>]

\* The (message, response) pairs of a sequence of conversation records.
Pairs(convs) == [i \in 1..Len(convs) |-> << convs[i].message, convs[i].response >>]

Occurrences(x, seq) == Cardinality({ i \in DOMAIN seq : seq[i] = x })

SameBag(s1, s2) ==
    /\ Len(s1) = Len(s2)
    /\ \A i \in DOMAIN s1 : Occurrences(s1[i], s1) = Occurrences(s1[i], s2)

\* C1: a request whose message or userId is missing or empty is answered 400
\* and ends there: the handler has called nothing (no status check, no memory
\* read, no dispatch, no append), written nothing and inserted no record.
C1_InvalidRequestIs400 ==
    \A r \in Handlers :
        (pc[r] # "idle" /\ ~Valid(r)) =>
            /\ pc[r] = "Errored"
            /\ res[r].statusCode = 400
            /\ res[r].ended
            /\ res[r].written = <<>>
            /\ hist[r].calls = <<>>
            /\ hist[r].inserted = {}

\* C1 witness: a request with an empty message and a user id was answered 400
\* while the table held records.
C1_Witness ==
    \E r \in Handlers :
        /\ pc[r] = "Errored"
        /\ res[r].statusCode = 400
        /\ body[r].message = Str(<<>>)
        /\ Truthy(body[r].userId)
        /\ conversations # <<>>

\* C2: a valid request whose status check reported the backend not running, or
\* running without the model, is answered 503 and ends there: checkOllamaStatus
\* is the only call the handler made, and it inserted no record.
C2_UnavailableIs503 ==
    \A r \in Handlers :
        (/\ Valid(r)
         /\ pc[r] \notin {"idle", "CheckingBackend"}
         /\ ~(loc[r].ollamaStatus.isRunning /\ loc[r].ollamaStatus.modelAvailable)) =>
            /\ pc[r] = "Errored"
            /\ res[r].statusCode = 503
            /\ res[r].ended
            /\ hist[r].calls = << "checkOllamaStatus" >>
            /\ hist[r].inserted = {}

\* C2 witness: the backend ran without the model and the request was answered 503.
C2_Witness ==
    \E r \in Handlers :
        /\ pc[r] = "Errored"
        /\ res[r].statusCode = 503
        /\ loc[r].ollamaStatus.isRunning
        /\ ~loc[r].ollamaStatus.modelAvailable

\* The row with this id is the exchange of handler r as its caller saw it.
HoldsExchange(r, id) ==
    /\ id \in DOMAIN conversations
    /\ conversations[id].user_id = body[r].userId.s
    /\ conversations[id].message = body[r].message.s
    /\ Str(conversations[id].response) = res[r].response

\* C3 as claimed: a non-streaming request answered with the 200 payload has
\* inserted exactly one record, which holds its userId, its message and the
\* response returned.
C3_AsClaimed ==
    \A r \in Handlers :
        (pc[r] = "Done" /\ ~body[r].stream) =>
            /\ Cardinality(hist[r].inserted) = 1
            /\ \A id \in hist[r].inserted : HoldsExchange(r, id)

\* C3 amended: a non-streaming request answered with the 200 payload has called
\* logConversation exactly once; if the store accepted the insert it has
\* inserted exactly one record, which holds its userId, its message and the
\* response returned; if the store refused it, it has inserted none.
C3_OneAppendAttempt ==
    \A r \in Handlers :
        (pc[r] = "Done" /\ ~body[r].stream) =>
            /\ res[r].statusCode = 200
            /\ res[r].response.def
            /\ CountCalls(r, "logConversation") = 1
            /\ Cardinality(hist[r].inserted) =
                    (IF "logConversation" \in hist[r].failed THEN 0 ELSE 1)
            /\ \A id \in hist[r].inserted : HoldsExchange(r, id)

\* C3 witness: a non-streaming request got its payload and its record was
\* inserted after records that were there before.
C3_Witness ==
    \E r \in Handlers :
        /\ pc[r] = "Done"
        /\ ~body[r].stream
        /\ hist[r].inserted # {}
        /\ \A id \in hist[r].inserted : id > 1

\* C4: once the stream has completed, the text handed to logConversation, and
\* the response of the record inserted, is the concatenation of the chunks
\* written to the caller, in the order written.
C4_PersistedIsConcatenation ==
    \A r \in Handlers :
        (body[r].stream /\ pc[r] \in {"Persisting", "Done"}) =>
            /\ loc[r].fullResponse = Flatten(res[r].written)
            /\ \A id \in hist[r].inserted :
                    /\ id \in DOMAIN conversations
                    /\ conversations[id].response = Flatten(res[r].written)

\* C4 witness: a stream of two different chunks completed and was persisted.
C4_Witness ==
    \E r \in Handlers :
        /\ body[r].stream
        /\ pc[r] = "Done"
        /\ hist[r].inserted # {}
        /\ Len(res[r].written) >= 2
        /\ res[r].written[1] # res[r].written[2]

\* C5: when ollamaStream throws (the fetch fails, or a read fails after any
\* number of chunks), the notice is the last thing written, and written once,
\* the response is ended, logConversation is not called and no record inserted.
C5_FailedStreamEndsWithNotice ==
    \A r \in Handlers :
        Has(r, "ollamaStreamThrew") =>
            /\ pc[r] = "Errored"
            /\ res[r].ended
            /\ res[r].written # <<>>
            /\ res[r].written[Len(res[r].written)] = ModelErrorNotice
            /\ Occurrences(ModelErrorNotice, res[r].written) = 1
            /\ ~Has(r, "logConversation")
            /\ hist[r].inserted = {}

\* C5 witness: the stream failed after a chunk had been relayed.
C5_Witness ==
    \E r \in Handlers :
        /\ Has(r, "ollamaStreamThrew")
        /\ Len(res[r].written) >= 2
        /\ res[r].written[1] = << "a" >>

\* C6 as claimed: after the caller disconnects during a streaming chat, the
\* handler reads no more from the backend stream, does not call
\* logConversation and inserts no record.
C6_AsClaimed ==
    \A r \in Handlers :
        \A i \in DOMAIN hist[r].calls :
            hist[r].calls[i] = "clientClose" =>
                /\ \A j \in DOMAIN hist[r].calls :
                        j > i => hist[r].calls[j] \notin {"read", "logConversation"}
                /\ hist[r].inserted = {}

\* C7: when logConversation met a store error after the model replied, the
\* request is Done with status 200 and no error: a non-streaming caller has the
\* payload with the model's formatted response, a streaming caller has the
\* relayed chunks, no notice among them, and an ended response.
C7_AppendFailureKeepsReply ==
    \A r \in Handlers :
        "logConversation" \in hist[r].failed =>
            /\ pc[r] = "Done"
            /\ res[r].ended
            /\ res[r].statusCode = 200
            /\ res[r].error = "none"
            /\ hist[r].inserted = {}
            /\ body[r].stream =>
                    /\ Flatten(res[r].written) = loc[r].fullResponse
                    /\ Occurrences(ModelErrorNotice, res[r].written) = 0
            /\ ~body[r].stream =>
                    /\ loc[r].response.def
                    /\ res[r].response = Str(Trim(loc[r].response.s))
                    /\ res[r].written = <<>>

\* C7 witness: the append of a streamed reply of at least one chunk failed.
C7_Witness ==
    \E r \in Handlers :
        /\ "logConversation" \in hist[r].failed
        /\ body[r].stream
        /\ res[r].written # <<>>

MemoryReads == {"recallRecentConversations", "recallAllMemories"}

Dispatched(r) == Has(r, "ollamaStream") \/ Has(r, "ollamaRequest")

\* C8: a failed read of recent conversations leaves the handler with an empty
\* list of them, a failed read of facts with an empty list of facts; once the
\* reads are over the prompt is dispatched, so a request that met a failed
\* read is Errored only by what happened at or after dispatch.
C8_ReadFailureDegrades ==
    \A r \in Handlers :
        /\ "recallRecentConversations" \in hist[r].failed =>
                loc[r].recentConversations = Rows(<<>>)
        /\ "recallAllMemories" \in hist[r].failed =>
                loc[r].userMemories = Rows(<<>>)
        /\ (/\ hist[r].failed \cap MemoryReads # {}
            /\ pc[r] \notin {"FetchingConversations", "FetchingMemories"}) =>
                /\ Dispatched(r)
                /\ loc[r].fullPrompt # <<>>

\* C8 witness: the read of the recent conversations of a user who has some
\* failed, and the request was answered with the model's reply.
C8_Witness ==
    \E r \in Handlers :
        /\ "recallRecentConversations" \in hist[r].failed
        /\ pc[r] = "Done"
        /\ NewestFirstOf(conversations, body[r].userId.s) # <<>>
        /\ conversations[1].user_id = body[r].userId.s
        /\ 1 \notin hist[r].inserted
        /\ loc[r].recentConversations = Rows(<<>>)

\* C9 as claimed: given k records, most recent first, the block shows the
\* min(k, 5) most recent of them and no others.
C9_AsClaimed ==
    ctx.pc = "returned" =>
        SameBag(RenderedPairs(ctx.out), Pairs(Take(ctx.convs, ContextWindow)))

\* C10 as claimed: the records shown in the context block of a chat request's
\* prompt are in chronological order, the oldest first, that is the reverse of
\* what recallRecentConversations(userId, 5) returned.
C10_AsClaimed ==
    \A r \in Handlers :
        loc[r].fullPrompt # <<>> =>
            RenderedPairs(loc[r].fullPrompt) = Reverse(Pairs(loc[r].recentConversations.s))

HasLine(lines, kinds) == \E i \in DOMAIN lines : lines[i].kind \in kinds

\* C11: the block built from no conversations and no facts is empty; the
\* history header, and any line of the history section, is in the block if
\* and only if conversations were supplied; the facts header, and any fact
\* line, if and only if facts were supplied.
C11_SectionsIffNonEmpty ==
    ctx.pc = "returned" =>
        /\ (ctx.convs = <<>> /\ ctx.mems = <<>>) => ctx.out = <<>>
        /\ HasLine(ctx.out, {"historyHeader"}) <=> ctx.convs # <<>>
        /\ HasLine(ctx.out, {"user", "hue"}) <=> ctx.convs # <<>>
        /\ HasLine(ctx.out, {"memoriesHeader"}) <=> ctx.mems # <<>>
        /\ HasLine(ctx.out, {"memory"}) <=> ctx.mems # <<>>

\* C11 witness: facts but no conversations were supplied, and the block built
\* starts with the facts header.
C11_Witness ==
    /\ ctx.pc = "returned"
    /\ ctx.convs = <<>>
    /\ ctx.mems # <<>>
    /\ ctx.out # <<>>
    /\ ctx.out[1] = MemoriesHeader

\* The value the table holds for (userId, key), when it holds exactly one.
HoldsFact(table, userId, key, value) ==
    \E i \in DOMAIN table :
        /\ table[i].user_id = userId /\ table[i].key = key /\ table[i].value = value
        /\ \A j \in DOMAIN table :
              (table[j].user_id = userId /\ table[j].key = key) => j = i

\* C12 as claimed: the memories table never holds two facts of one
\* (userId, key), and a store request for a key the user already has, which
\* the store answered without an outage, succeeds and leaves the one fact of
\* that key with the submitted value.
C12_AsClaimed ==
    /\ \A i, j \in DOMAIN memories :
          (memories[i].user_id = memories[j].user_id /\ memories[i].key = memories[j].key)
              => i = j
    /\ (/\ api.op = "store"
        /\ api.statusCode = 200
        /\ api.storeOk
        /\ HasKey(api.before, api.userId, api.key.s)) =>
            /\ api.result = "memory"
            /\ HoldsFact(memories, api.userId, api.key.s, api.value.s)

\* The block of the prompt has the line "- key: value".
HasFactLine(prompt, key, value) ==
    \E i \in DOMAIN prompt :
        prompt[i].kind = "memory" /\ prompt[i].a = key /\ prompt[i].b = value

\* Handler r dispatches its prompt in this step.
Dispatches(r) ==
    pc[r] = "FetchingMemories" /\ pc'[r] \in {"Streaming", "Completing"}

\* C13 as claimed: when a chat request dispatches its prompt, every fact the
\* memories table holds for its user at that moment (stored, and neither
\* deleted nor overwritten since) has its "key: value" line in the prompt.
C13_AsClaimed ==
    [][\A r \in Handlers :
          Dispatches(r) =>
              \A i \in DOMAIN memories :
                  memories[i].user_id = body[r].userId.s =>
                      HasFactLine(loc'[r].fullPrompt, memories[i].key, memories[i].value)]_vars

\* C13, amended: the same, for a request whose read of the facts the store
\* answered; a request whose read failed dispatches a prompt without facts.
C13_StoredFactReachesPrompt ==
    [][\A r \in Handlers :
          Dispatches(r) =>
              IF "recallAllMemories" \in hist'[r].failed
                  THEN ~HasLine(loc'[r].fullPrompt, {"memoriesHeader", "memory"})
                  ELSE \A i \in DOMAIN memories :
                          memories[i].user_id = body[r].userId.s =>
                              HasFactLine(loc'[r].fullPrompt, memories[i].key,
                                          memories[i].value)]_vars

\* C13 witness: a fact (k, x) was stored for the user of a chat request, whose
\* dispatched prompt holds the line of it.
C13_Witness ==
    \E r \in Handlers :
        /\ pc[r] \in {"Streaming", "Completing"}
        /\ HoldsFact(memories, body[r].userId.s, <<"k">>, <<"x">>)
        /\ HasFactLine(loc[r].fullPrompt, <<"k">>, <<"x">>)

BackendDown(outcome) == outcome \in {"connectionFailure", "notOk", "badBody", "nullBody"}

\* C15: whatever GET /api/tags did, a status request is answered 200 with a
\* status value, never 500; when the backend is down the value has isRunning
\* and modelAvailable false and an error detail; modelAvailable is true only
\* with isRunning true, and is true when the listing has the model.
C15_StatusNeverRaises ==
    api.op = "status" =>
        /\ api.statusCode = 200
        /\ api.result = "status"
        /\ api.status.modelAvailable => api.status.isRunning
        /\ BackendDown(api.backend) =>
              /\ ~api.status.isRunning
              /\ ~api.status.modelAvailable
              /\ api.status.error \in {"notResponding", "failedToConnect"}
        /\ ~BackendDown(api.backend) =>
              /\ api.status.isRunning
              /\ api.status.modelAvailable <=> api.backend = "modelListed"

\* C15 witness: the connection to the backend failed and the status request
\* was answered 200 with the status value of a backend that is down.
C15_Witness ==
    /\ api.op = "status"
    /\ api.backend = "connectionFailure"
    /\ api.statusCode = 200
    /\ ~api.status.isRunning
    /\ api.status.error = "failedToConnect"

\* The complete (newline-terminated) lines received so far, in arrival order.
ReceivedLines ==
    LET lines == SplitLines(gen.received) IN SubSeq(lines, 1, Len(lines) - 1)

\* A line that is a record of the wire format.
IsRecord(line) == Trim(line) # <<>> /\ ParseLine(line).ok

IsDoneRecord(line) == IsRecord(line) /\ ParseLine(line).done

\* The position of the first record with done = true, past the end when there
\* is none.
FirstDone(lines) ==
    IF \E i \in DOMAIN lines : IsDoneRecord(lines[i])
        THEN CHOOSE i \in DOMAIN lines :
                /\ IsDoneRecord(lines[i])
                /\ \A j \in 1..(i - 1) : ~IsDoneRecord(lines[j])
        ELSE Len(lines) + 1

FragmentsOf(lines) ==
    LET records == SelectSeq(lines, IsRecord)
    IN  [i \in 1..Len(records) |-> ParseLine(records[i]).response]

GenStarted == gen.state \notin {"none", "fetching", "fetchThrew"}

\* C16: what ollamaStream has yielded is, in arrival order, the fragments of
\* the records received up to and including the first one with done = true,
\* and nothing of any line after it; it has returned exactly when such a
\* record was received, and otherwise goes on reading until the connection
\* closes or fails.
C16_YieldsUpToFirstDone ==
    /\ ~GenStarted => gen.yielded = <<>>
    /\ GenStarted =>
          LET lines == ReceivedLines
              d == FirstDone(lines)
          IN  /\ gen.yielded = FragmentsOf(SubSeq(lines, 1, Min(d, Len(lines))))
              /\ gen.state = "returned" <=> d <= Len(lines)
              /\ gen.state \in {"returned", "reading", "closed", "readThrew"}

\* C16 witness: the read that brought the first done record brought a record
\* after it as well; ollamaStream returned having yielded up to the done
\* record only.
C16_Witness ==
    /\ gen.state = "returned"
    /\ LET lines == ReceivedLines
           d == FirstDone(lines)
       IN  /\ d >= 2
           /\ d < Len(lines)
           /\ IsRecord(lines[d + 1])
           /\ IsRecord(lines[1])
           /\ Len(gen.yielded) = d

\* How many of the first j lines are records.
RecordCount(lines, j) == Cardinality({ i \in 1..j : IsRecord(lines[i]) })

\* C17: a received line that JSON.parse rejects yields nothing and does not
\* end ollamaStream, by a return or by a throw: every record among the lines
\* up to the first done record has its fragment yielded at its position among
\* the records, those that follow a rejected line included, and nothing else
\* is yielded.
C17_UnparsableLineIsSkipped ==
    /\ gen.state # "parseThrew"
    /\ GenStarted =>
          LET lines == ReceivedLines
              last == Min(FirstDone(lines), Len(lines))
          IN  /\ Len(gen.yielded) = RecordCount(lines, last)
              /\ \A j \in 1..last :
                    IsRecord(lines[j]) =>
                        gen.yielded[RecordCount(lines, j)] = ParseLine(lines[j]).response
              /\ (\A j \in DOMAIN lines : ~IsDoneRecord(lines[j])) =>
                    gen.state \in {"reading", "closed", "readThrew"}

\* C17 witness: a line that is not JSON came first, two records after it, and
\* both were yielded.
C17_Witness ==
    /\ gen.state = "reading"
    /\ LET lines == ReceivedLines
       IN  /\ Len(lines) = 3
           /\ lines[1] = << "x" >>
           /\ IsRecord(lines[2])
           /\ IsRecord(lines[3])
           /\ gen.yielded = << ParseLine(lines[2]).response, ParseLine(lines[3]).response >>

Terminal(r) == pc[r] \in {"Done", "Errored"}

PipelineSteps ==
    {"checkOllamaStatus", "recallRecentConversations", "recallAllMemories", "ollamaStream",
     "ollamaRequest", "logConversation"}

\* The terminal outcome the caller has: an error answer 400, 503 or 500, the
\* single 200 payload, or the ended stream.
Outcome(r) ==
    CASE res[r].contentType = "json" /\ res[r].statusCode \in {400, 503, 500}
            /\ res[r].error # "none" /\ ~res[r].response.def -> "error"
      [] res[r].contentType = "json" /\ res[r].statusCode = 200
            /\ res[r].error = "none" /\ res[r].response.def /\ res[r].written = <<>> -> "payload"
      [] res[r].contentType = "text/plain" /\ res[r].statusCode = 200
            /\ res[r].error = "none" /\ ~res[r].response.def -> "stream"
      [] OTHER -> "none"

\* C18, at every moment: the handler has answered (res.json or res.end) at
\* most once, exactly once when it is Done or Errored and not before, with one
\* of the five outcomes; and it has made each call of the pipeline at most
\* once, and not both dispatches.
OneOutcome(r) ==
    /\ res[r].ends <= 1
    /\ res[r].ended <=> res[r].ends = 1
    /\ Terminal(r) <=> res[r].ended
    /\ Terminal(r) => Outcome(r) # "none"
    /\ \A step \in PipelineSteps : CountCalls(r, step) <= 1
    /\ ~(Has(r, "ollamaStream") /\ Has(r, "ollamaRequest"))

\* C18, at every step: once the handler has answered, nothing more is written
\* to that caller, no call is made for that request and no record inserted.
NothingAfterOutcome(r) ==
    (res[r].ended /\ arrivals' = arrivals) =>
        /\ res'[r] = res[r]
        /\ hist'[r] = hist[r]
        /\ pc'[r] = pc[r]
        /\ conversations' = conversations

\* C18: every chat request received is answered, exactly once, with one of
\* the five terminal outcomes; nothing follows the answer; no step of the
\* pipeline is made twice.
C18_OneTerminalOutcome ==
    /\ [](\A r \in Handlers : OneOutcome(r))
    /\ [][\A r \in Handlers : NothingAfterOutcome(r)]_vars
    /\ \A r \in Handlers : (pc[r] \notin {"idle", "Done", "Errored"}) ~> Terminal(r)

\* C18 witness: a streaming request whose store failed at the append is Done:
\* ended once, the append called once.
C18_Witness ==
    \E r \in Handlers :
        /\ pc[r] = "Done"
        /\ body[r].stream
        /\ "logConversation" \in hist[r].failed
        /\ CountCalls(r, "logConversation") = 1
        /\ res[r].ends = 1
        /\ Outcome(r) = "stream"

\* The call named first comes before the call named second in the handler's calls.
CalledBefore(r, first, second) ==
    \E i, j \in DOMAIN hist[r].calls :
        i < j /\ hist[r].calls[i] = first /\ hist[r].calls[j] = second

\* logConversation has settled for handler r: it inserted, or the store failed.
AppendSettled(r) == hist[r].inserted # {} \/ "logConversation" \in hist[r].failed

\* C19: in a non-streaming request logConversation is called only with the
\* model's complete formatted response in hand, after ollamaRequest; nothing
\* is sent while it is awaited; and the payload the caller has was sent after
\* it settled.
C19_ReplyAfterAppend ==
    \A r \in Handlers :
        (pc[r] # "idle" /\ ~body[r].stream) =>
            /\ Has(r, "logConversation") =>
                  /\ CalledBefore(r, "ollamaRequest", "logConversation")
                  /\ loc[r].response.def
                  /\ loc[r].fullResponse = formatResponse(loc[r].response.s)
            /\ pc[r] = "Persisting" =>
                  /\ ~res[r].ended /\ ~res[r].response.def
                  /\ ~AppendSettled(r)
            /\ res[r].response.def =>
                  /\ Has(r, "logConversation")
                  /\ AppendSettled(r)
                  /\ res[r].response = Str(loc[r].fullResponse)

\* C19 witness: the append of a non-streaming request was refused by the
\* store, and the caller has the payload.
C19_Witness ==
    \E r \in Handlers :
        /\ ~body[r].stream
        /\ pc[r] = "Done"
        /\ "logConversation" \in hist[r].failed
        /\ hist[r].inserted = {}
        /\ res[r].response = Str(<< "b" >>)

IsWrite(e) == e.ev = "write"

IsYield(e) == e.ev = "yield"

\* The chunks of the events of a log that satisfy a test, in order.
ChunksOf(log, Test(_)) ==
    LET events == SelectSeq(log, Test) IN [i \in 1..Len(events) |-> events[i].chunk]

\* What was written to the caller apart from the notice of a failed stream.
RelayedChunks(r) ==
    IF Len(res[r].written) > 0 /\ res[r].written[Len(res[r].written)] = ModelErrorNotice
        THEN SubSeq(res[r].written, 1, Len(res[r].written) - 1)
        ELSE res[r].written

\* C20: in a streaming request every chunk ollamaStream yields is written
\* before anything else happens, and ollamaStream is asked for the next chunk
\* (and reads on from the backend) only after that write; the chunks the caller
\* has are the chunks yielded, in the order yielded; logConversation is called
\* after the last write, with no read after it, while the response is still
\* open, and the response is ended only when it has settled.
C20_RelayIsIncremental ==
    \A r \in Handlers :
        (pc[r] # "idle" /\ body[r].stream) =>
            LET log == reader[r].log IN
            /\ \A i \in DOMAIN log :
                  /\ log[i].ev = "yield" =>
                        IF i < Len(log)
                            THEN log[i + 1] = Event("write", log[i].chunk)
                            ELSE ~log[i].chunk.def /\ Has(r, "writeThrew")
                  /\ log[i].ev = "write" => i > 1 /\ log[i - 1] = Event("yield", log[i].chunk)
                  /\ log[i].ev = "next" => i > 1 /\ log[i - 1].ev = "write"
            /\ pc[r] = "Streaming" =>
                  log = <<>> \/ log[Len(log)].ev = "next"
            /\ RelayedChunks(r) =
                  [i \in 1..Len(ChunksOf(log, IsWrite)) |-> ChunksOf(log, IsWrite)[i].s]
            /\ \A i \in 1..Len(RelayedChunks(r)) :
                  Str(RelayedChunks(r)[i]) = ChunksOf(log, IsYield)[i]
            /\ Has(r, "logConversation") =>
                  /\ Len(ChunksOf(log, IsWrite)) = Len(ChunksOf(log, IsYield))
                  /\ hist[r].calls[Len(hist[r].calls)] = "logConversation"
                  /\ res[r].ended <=> AppendSettled(r)
            /\ pc[r] = "Persisting" => ~res[r].ended

\* C20 witness: a stream of three chunks over two reads was relayed, the
\* record inserted, the response ended.
C20_Witness ==
    \E r \in Handlers :
        /\ body[r].stream
        /\ pc[r] = "Done"
        /\ reader[r].reads = 2
        /\ Len(res[r].written) = 3
        /\ Len(reader[r].log) = 9
        /\ hist[r].inserted # {}

\* C21: a handler calls logConversation, and a record of it exists, only once
\* its inference call is over without a failure: ollamaRequest returned a
\* response, or ollamaStream ended (its lock released) with no throw from it or
\* from a write.  A non-streaming request whose ollamaRequest failed is
\* answered 500, has not called logConversation and has inserted no record.
C21_AppendOnlyAfterInference ==
    \A r \in Handlers :
        /\ (Has(r, "logConversation") \/ hist[r].inserted # {}) =>
              /\ Dispatched(r)
              /\ ~Has(r, "ollamaStreamThrew")
              /\ ~Has(r, "writeThrew")
              /\ body[r].stream =>
                    /\ CalledBefore(r, "ollamaStream", "logConversation")
                    /\ reader[r].state = "released"
              /\ ~body[r].stream =>
                    /\ CalledBefore(r, "ollamaRequest", "logConversation")
                    /\ loc[r].response.def
        /\ (Has(r, "ollamaRequest") /\ pc[r] # "Completing" /\ ~loc[r].response.def) =>
              /\ pc[r] = "Errored"
              /\ res[r].statusCode = 500
              /\ res[r].ended
              /\ ~Has(r, "logConversation")
              /\ hist[r].inserted = {}

\* C21 witness: ollamaRequest failed and the request was answered 500.
C21_Witness ==
    \E r \in Handlers :
        /\ Has(r, "ollamaRequest")
        /\ ~loc[r].response.def
        /\ pc[r] = "Errored"
        /\ res[r].statusCode = 500

\* C22 as claimed: a request to one of the four memory endpoints during which
\* the store failed is answered 500.
C22_AsClaimed ==
    (api.op \in {"recallAll", "store", "recall", "delete"} /\ ~api.storeOk) =>
        api.statusCode = 500

InsertedBy == UNION { hist[r].inserted : r \in Handlers }

\* Every request that arrived is still in the hands of its handler.
NoneReplaced == arrivals = Cardinality({ r \in Handlers : pc[r] # "idle" })

\* The row with this id holds the user, message and accumulated response of
\* handler r.
OwnRecord(r, id) ==
    /\ id \in DOMAIN conversations
    /\ conversations[id].user_id = body[r].userId.s
    /\ conversations[id].message = body[r].message.s
    /\ conversations[id].response = loc[r].fullResponse

\* The prompt of handler r ends with its own message, and the history it shows
\* is of records of its own user.
OwnPrompt(r) ==
    LET prompt == loc[r].fullPrompt IN
    /\ prompt[Len(prompt)] = Line("turn", 0, body[r].message.s, <<>>)
    /\ \A i \in DOMAIN prompt :
          prompt[i].kind = "user" =>
              \E j \in DOMAIN conversations :
                  /\ conversations[j].user_id = body[r].userId.s
                  /\ conversations[j].message = prompt[i].a

\* Each request keeps to itself: its record holds its own text, its
\* accumulated response is what was relayed to its own caller, its prompt is
\* its own, and no record belongs to two requests.
Isolated ==
    /\ \A r \in Handlers :
          /\ Cardinality(hist[r].inserted) <= 1
          /\ \A id \in hist[r].inserted : OwnRecord(r, id)
          /\ (body[r].stream /\ pc[r] \in {"Streaming", "Persisting", "Done"}) =>
                loc[r].fullResponse = Flatten(res[r].written)
          /\ Dispatched(r) => OwnPrompt(r)
    /\ \A r, s \in Handlers : r # s => hist[r].inserted \cap hist[s].inserted = {}
    /\ NoneReplaced => DOMAIN conversations = InsertedBy

\* C24 as claimed: in any interleaving, every request that is Done has
\* inserted exactly one record, and n requests that are Done have left n records.
C24_AsClaimed ==
    /\ \A r \in Handlers : pc[r] = "Done" => Cardinality(hist[r].inserted) = 1
    /\ NoneReplaced =>
          Len(conversations) = Cardinality({ r \in Handlers : pc[r] = "Done" })

\* C24 amended: in any interleaving of the handlers' steps each request keeps
\* to itself; every request that is Done and whose insert the store accepted
\* has inserted exactly one record, one whose insert the store refused none;
\* and n such accepted requests have left exactly n records.
C24_RequestsAreIsolated ==
    /\ Isolated
    /\ \A r \in Handlers :
          pc[r] = "Done" =>
              Cardinality(hist[r].inserted) =
                  (IF "logConversation" \in hist[r].failed THEN 0 ELSE 1)
    /\ NoneReplaced =>
          Len(conversations) =
              Cardinality({ r \in Handlers :
                              pc[r] = "Done" /\ "logConversation" \notin hist[r].failed })

\* C24 witness: two streaming requests of one user overlapped (the first
\* handler read the history before the second one's record was there, and
\* persisted after it), with different messages and different responses.
C24_Witness ==
    /\ pc[1] = "Done" /\ pc[2] = "Done"
    /\ body[1].stream /\ body[2].stream
    /\ body[1].userId = body[2].userId
    /\ hist[1].inserted = {2} /\ hist[2].inserted = {1}
    /\ "recallRecentConversations" \notin hist[1].failed
    /\ loc[1].recentConversations = Rows(<<>>)
    /\ conversations[1].message # conversations[2].message
    /\ conversations[1].response # conversations[2].response
    /\ conversations[1].response # <<>> /\ conversations[2].response # <<>>

\* The records of a user in the table.
RecordsOf(table, userId) == { i \in DOMAIN table : table[i].user_id = userId }

\* The records of a user that have fewer than n records of the user after them.
MostRecentOf(table, userId, n) ==
    { i \in RecordsOf(table, userId) :
        Cardinality({ j \in RecordsOf(table, userId) : j > i }) < n }

\* The prompt shows the exchange of this record: its message on a "User:"
\* line and its response on the "Hue:" line that follows.
ShowsExchange(prompt, record) ==
    \E k \in 1..(Len(prompt) - 1) :
        /\ prompt[k].kind = "user" /\ prompt[k].a = record.message
        /\ prompt[k + 1].kind = "hue" /\ prompt[k + 1].a = record.response

\* The history of the prompt is of the given records of the table, and of
\* nothing else.
ShowsExactly(prompt, table, records) ==
    /\ \A i \in records : ShowsExchange(prompt, table[i])
    /\ Len(SelectSeq(prompt, IsUserLine)) = Cardinality(records)

\* C25 as claimed: the prompt a chat request of user u dispatches shows the
\* exchanges of u persisted before it that are among u's 5 most recent.
C25_AsClaimed ==
    [][\A r \in Handlers :
          Dispatches(r) =>
              \A i \in MostRecentOf(conversations, body[r].userId.s, RecallLimit) :
                  ShowsExchange(loc'[r].fullPrompt, conversations[i])]_vars

\* C25 amended: the prompt a chat request of user u dispatches shows, when the
\* request's read of the conversations succeeded, exactly the exchanges of u
\* persisted before it that are among u's 5 most recent, computed from the
\* table as it is for this request; when the read failed it shows no history.
C25_ContextIsRegenerated ==
    [][\A r \in Handlers :
          Dispatches(r) =>
              ShowsExactly(loc'[r].fullPrompt, conversations,
                           IF "recallRecentConversations" \in hist[r].failed
                              THEN {}
                              ELSE MostRecentOf(conversations, body[r].userId.s,
                                                RecallLimit))]_vars

\* C25 witness: the second request of user "u" was dispatched when the table
\* held more than 5 records of u, the last persisted by the first request;
\* its prompt shows that exchange and 5 exchanges in all.
C25_Witness ==
    \E r \in Handlers :
        /\ arrivals = 2
        /\ Dispatched(r)
        /\ body[r].userId = Str(<< "u" >>)
        /\ Len(conversations) = RecallLimit + 1
        /\ conversations[Len(conversations)].message = << "q" >>
        /\ ShowsExchange(loc[r].fullPrompt, conversations[Len(conversations)])
        /\ Len(SelectSeq(loc[r].fullPrompt, IsUserLine)) = RecallLimit
        /\ pc[r] \in {"Streaming", "Completing"}

\* C26: a streaming request that has dispatched its prompt keeps status 200
\* and a text/plain body whatever the backend does and is never answered with
\* an error payload; when it ends in failure (the fetch failed or answered a
\* non-success status before any chunk, a read failed, a chunk could not be
\* written) the body is ended and the notice is the last thing in it.
C26_StreamFailureIsNotice ==
    \A r \in Handlers :
        (body[r].stream /\ Has(r, "ollamaStream")) =>
            /\ res[r].statusCode = 200
            /\ res[r].contentType = "text/plain"
            /\ res[r].error = "none"
            /\ ~res[r].response.def
            /\ pc[r] = "Errored" =>
                  /\ Has(r, "ollamaStreamThrew") \/ Has(r, "writeThrew")
                  /\ res[r].ended
                  /\ res[r].written # <<>>
                  /\ res[r].written[Len(res[r].written)] = ModelErrorNotice
            /\ (Has(r, "ollamaStreamThrew") \/ Has(r, "writeThrew")) => pc[r] = "Errored"

\* C26 witness: the stream could not be opened, and the body of the 200
\* response is the notice alone.
C26_Witness ==
    \E r \in Handlers :
        /\ body[r].stream
        /\ Has(r, "ollamaStreamThrew")
        /\ reader[r].state = "none"
        /\ res[r].statusCode = 200
        /\ res[r].written = << ModelErrorNotice >>

\* What ollamaStream yields for the data received so far when it all comes in
\* one read.
YieldedInOneRead ==
    YieldLines(ReceivedLines, [yielded |-> <<>>, exit |-> "more"]).yielded

\* C27: however the reads cut the data, what ollamaStream has yielded is what
\* it yields for the same data received in a single read, so a record cut by
\* the end of a read is yielded once and whole, and the records of one read
\* once each and in order; while it reads, its buffer is the unfinished last
\* line of the data.
C27_YieldsIgnoreReadBoundaries ==
    /\ GenStarted => gen.yielded = YieldedInOneRead
    /\ gen.state = "reading" =>
          LET lines == SplitLines(gen.received) IN gen.buffer = lines[Len(lines)]

\* C27 witness: the first read ended inside the first record, the second
\* brought its rest and a second record, and both fragments were yielded.
C27_Witness ==
    /\ gen.split
    /\ gen.reads = 2
    /\ gen.yielded = << Str(<< "a" >>), Str(<< "b" >>) >>

\* C28 as claimed: when the connection has closed, every record received
\* before it, up to the first with done = true, has been yielded, the last
\* one included when no newline followed it.
C28_AsClaimed ==
    gen.state = "closed" =>
        LET lines == SplitLines(gen.received)
        IN  gen.yielded = FragmentsOf(SubSeq(lines, 1, Min(FirstDone(lines), Len(lines))))

\* C29: the lock of the reader is released at most once, and never before the
\* reader was acquired; while the handler iterates over ollamaStream the lock
\* is held; once ollamaStream, having acquired the reader, is over (the done
\* record came, the connection closed, a read failed, or the consumer's write
\* threw at a yield) the lock has been released exactly once.
C29_LockReleasedOnce ==
    \A r \in Handlers :
        /\ reader[r].releases <= 1
        /\ reader[r].state = "none" => reader[r].releases = 0 /\ ~Has(r, "read")
        /\ reader[r].state = "locked" => reader[r].releases = 0 /\ pc[r] = "Streaming"
        /\ reader[r].state = "released" <=> reader[r].releases = 1
        /\ (Has(r, "read") /\ pc[r] # "Streaming") => reader[r].releases = 1

\* C29 witness: the consumer's write threw at a yield, after a chunk had been
\* relayed, and the lock was released.
C29_Witness ==
    \E r \in Handlers :
        /\ Has(r, "writeThrew")
        /\ reader[r].releases = 1
        /\ Len(res[r].written) >= 2

\* C30 as claimed: every chunk ollamaStream has yielded is a text, the
\* response of a record; a record without a response field leaves no trace:
\* what the handler has accumulated is the chunks relayed to the caller, and
\* no write has failed.
C30_AsClaimed ==
    \A r \in Handlers :
        /\ \A i \in DOMAIN reader[r].log :
              reader[r].log[i].ev = "yield" => reader[r].log[i].chunk.def
        /\ body[r].stream => loc[r].fullResponse = Flatten(RelayedChunks(r))
        /\ ~Has(r, "writeThrew")

====
